---- MODULE Spec2Model ----
(***************************************************************************)
(* Model of the pool synchronisation engine of cfmms-rs (src/src/sync.rs): *)
(* the entry points sync_pairs_with_throttle, get_all_pools,               *)
(* get_all_pools_from_dex and get_all_pool_data, their two levels of       *)
(* spawned tasks, the joins, the shared throttle mutex, the chain they     *)
(* query and the checkpoint sink they call.                                *)
(***************************************************************************)
EXTENDS Integers, Sequences, FiniteSets, TLC

VARIABLES entry, dexes, save_checkpoint, requests_per_second_limit, chainHead, advances,
          main, pipe, mutex, sleeping, heightQueries, checkpoints, shutdown, faults,
          previous

vars == <<entry, dexes, save_checkpoint, requests_per_second_limit, chainHead, advances,
          main, pipe, mutex, sleeping, heightQueries, checkpoints, shutdown, faults,
          previous>>

inputs == <<entry, dexes, save_checkpoint, requests_per_second_limit>>

(***************************************************************************)
(* Program constants.                                                      *)
(***************************************************************************)
step == 100000

LogsWeight == 1

PoolDataWeight == 4

SyncPoolCostedAsPoolData == PoolDataWeight

SyncPoolWeight == 1

CheckpointName == "pool_sync_checkpoint.json"

(***************************************************************************)
(* Bounds of the model.                                                    *)
(***************************************************************************)
MaxFaults == 2

MaxAdvances == 1

MaxPools == 3

HalfStep == step \div 2

(***************************************************************************)
(* The chain: the blocks at which each exchange emitted a creation log.    *)
(* A log is visible to a query only once the chain head has reached it.    *)
(***************************************************************************)
ChainLogs(id) ==
    IF id = 1 THEN {step, 2 * step + HalfStep, 3 * step}
    ELSE {HalfStep}

Dex(id, c) == [id |-> id, creation_block |-> c]

EmptyPool(id, b) == [dex |-> id, block |-> b, stage |-> "empty"]

(***************************************************************************)
(* Errors, panic payloads and task results.                                *)
(***************************************************************************)
Origin(what, e, k) == <<what, e, k>>

NoErr == [class |-> "none", origin |-> Origin("none", 0, 0)]

Error(class, origin) == [class |-> class, origin |-> origin]

Pending == [kind |-> "Pending", pools |-> <<>>, err |-> NoErr]

OkRes(pools) == [kind |-> "Ok", pools |-> pools, err |-> NoErr]

ErrRes(err) == [kind |-> "Err", pools |-> <<>>, err |-> err]

PanicRes(origin) == [kind |-> "Panic", pools |-> <<>>, err |-> Error("panic", origin)]

CancelledRes == [kind |-> "Cancelled", pools |-> <<>>, err |-> NoErr]

FinishedOrNot(res) == TRUE

Finished(res) == res.kind # "Pending"

(***************************************************************************)
(* Sequence helpers.                                                       *)
(***************************************************************************)
Min(S) == CHOOSE x \in S : \A y \in S : x <= y

RECURSIVE SortedSeq(_)
SortedSeq(S) == IF S = {} THEN <<>> ELSE <<Min(S)>> \o SortedSeq(S \ {Min(S)})

Range(s) == {s[i] : i \in 1..Len(s)}

RECURSIVE Sum(_, _)
Sum(f, S) ==
    IF S = {} THEN 0
    ELSE LET x == CHOOSE y \in S : TRUE IN f[x] + Sum(f, S \ {x})

(***************************************************************************)
(* WindowStarts over the half-open range from_block..current_block.        *)
(***************************************************************************)
RECURSIVE WindowStartsExclusive(_, _)
WindowStartsExclusive(from_block, current_block) ==
    IF from_block >= current_block THEN <<>>
    ELSE <<from_block>> \o WindowStartsExclusive(from_block + step, current_block)

(***************************************************************************)
(* (from_block..=current_block).step_by(step): the window starts.          *)
(***************************************************************************)
RECURSIVE WindowStarts(_, _)
WindowStarts(from_block, current_block) ==
    IF from_block > current_block THEN <<>>
    ELSE <<from_block>> \o WindowStarts(from_block + step, current_block)

ToBlock(from_block) == from_block + step

(***************************************************************************)
(* provider.get_logs over [from_block, to_block], both ends included: the  *)
(* logs of the exchange in the range that the chain already holds, in      *)
(* block order.                                                            *)
(***************************************************************************)
GetLogs(id, from_block, to_block, head) ==
    SortedSeq({b \in ChainLogs(id) : from_block <= b /\ b <= to_block /\ b <= head})

DecodeAll(id, logs) == [i \in 1..Len(logs) |-> EmptyPool(id, logs[i])]

(***************************************************************************)
(* JoinStep with a reported error skipped like a join error that is not a  *)
(* panic.                                                                  *)
(***************************************************************************)
JoinStepSkipsErr(res, aggregated) ==
    CASE res.kind = "Ok" -> [next |-> "continue", pools |-> aggregated \o res.pools, err |-> NoErr]
      [] res.kind = "Panic" -> [next |-> "resume_unwind", pools |-> aggregated, err |-> res.err]
      [] OTHER -> [next |-> "continue", pools |-> aggregated, err |-> NoErr]

(***************************************************************************)
(* One iteration of a join loop: match handle.await { Ok(r) => extend(r?), *)
(* Err(e) => if e.is_panic() { resume_unwind } }.                          *)
(***************************************************************************)
(***************************************************************************)
(* JoinStep with the joined result put in front of the aggregate.          *)
(***************************************************************************)
JoinStepPrepends(res, aggregated) ==
    CASE res.kind = "Ok" ->
            [next |-> "continue", pools |-> res.pools \o aggregated, err |-> NoErr]
      [] res.kind = "Err" -> [next |-> "return_err", pools |-> aggregated, err |-> res.err]
      [] res.kind = "Panic" -> [next |-> "resume_unwind", pools |-> aggregated, err |-> res.err]
      [] OTHER -> [next |-> "continue", pools |-> aggregated, err |-> NoErr]

JoinStep(res, aggregated) ==
    CASE res.kind = "Ok" -> [next |-> "continue", pools |-> aggregated \o res.pools, err |-> NoErr]
      [] res.kind = "Err" -> [next |-> "return_err", pools |-> aggregated, err |-> res.err]
      [] res.kind = "Panic" -> [next |-> "resume_unwind", pools |-> aggregated, err |-> res.err]
      [] OTHER -> [next |-> "continue", pools |-> aggregated, err |-> NoErr]

Window(from_block) ==
    [from_block |-> from_block, pc |-> "lock", query |-> <<>>, units |-> 0, res |-> Pending,
     after_return |-> FALSE]

NewPipe ==
    [pc |-> "unspawned", current_block |-> 0, wins |-> <<>>, j |-> 1, pools |-> <<>>,
     out |-> <<>>, outcomes |-> <<>>, p |-> 1, units |-> 0, calls |-> 0, res |-> Pending]

Composite == entry \in {"get_all_pools", "sync_pairs_with_throttle"}

Pipes == DOMAIN pipe

Fault == faults < MaxFaults /\ faults' = faults + 1

NoFault == faults' = faults

Free == <<>>

WinId(e, k) == Origin("window", e, k)

PipeId(e) == Origin("pipe", e, 0)

(***************************************************************************)
(* The inputs of the modelled call.                                        *)
(***************************************************************************)
Limits == {0, 1}

CreationBlocks == {0, HalfStep, step}

UpperBounds == {0, HalfStep, step, 2 * step + HalfStep}

RECURSIVE SeqsUpTo(_, _)
SeqsUpTo(S, n) ==
    IF n = 0 THEN {<<>>}
    ELSE SeqsUpTo(S, n - 1) \cup {Append(s, x) : s \in {t \in SeqsUpTo(S, n - 1) : Len(t) = n - 1}, x \in S}

InputPools == SeqsUpTo({EmptyPool(1, 0), EmptyPool(1, step)}, MaxPools)

NewMain(pc, current_block) ==
    [pc |-> pc, current_block |-> current_block, latest_block |-> 0, j |-> 1,
     aggregated |-> <<>>, outcome |-> "Running", pools |-> <<>>, err |-> NoErr]

InitCommon ==
    /\ requests_per_second_limit \in Limits
    /\ advances = 0
    /\ mutex = Free
    /\ sleeping = FALSE
    /\ previous = <<>>
    /\ heightQueries = 0
    /\ checkpoints = <<>>
    /\ shutdown = FALSE
    /\ faults = 0

InitComposite ==
    /\ entry \in {"get_all_pools", "sync_pairs_with_throttle"}
    /\ dexes = <<Dex(1, 0), Dex(2, HalfStep)>>
    /\ save_checkpoint \in (IF entry = "sync_pairs_with_throttle" THEN BOOLEAN ELSE {FALSE})
    /\ chainHead = step
    /\ main = NewMain("height", 0)
    /\ pipe = [e \in 1..Len(dexes) |-> NewPipe]

InitCrawl ==
    /\ entry = "get_all_pools_from_dex"
    /\ \E c \in CreationBlocks : dexes = <<Dex(1, c)>>
    /\ save_checkpoint = FALSE
    /\ \E h \in UpperBounds :
          /\ chainHead \in {h, h + HalfStep}
          /\ main = NewMain("inline", h)
          /\ pipe = [e \in {1} |-> [NewPipe EXCEPT !.pc = "start", !.current_block = h]]

InitPoolData ==
    /\ entry = "get_all_pool_data"
    /\ dexes = <<Dex(1, 0)>>
    /\ save_checkpoint = FALSE
    /\ chainHead = step
    /\ main = NewMain("inline", 0)
    /\ \E pools \in InputPools :
          pipe = [e \in {1} |->
                    IF pools = <<>> THEN [NewPipe EXCEPT !.pc = "done", !.res = OkRes(<<>>)]
                    ELSE [NewPipe EXCEPT !.pc = "pd_lock", !.pools = pools]]

Init == InitCommon /\ (InitComposite \/ InitCrawl \/ InitPoolData)

(***************************************************************************)
(* The chain head advances on its own during the run (an advance before    *)
(* the entry's height query is a higher initial head); the tokio runtime   *)
(* may be shut down under the call, which cancels the spawned tasks that   *)
(* have not finished.                                                      *)
(***************************************************************************)
AdvanceHead ==
    /\ advances < MaxAdvances
    /\ main.pc # "height"
    /\ advances' = advances + 1
    /\ chainHead' = chainHead + HalfStep
    /\ UNCHANGED <<inputs, sleeping, previous, main, pipe, mutex, heightQueries,
                   checkpoints, shutdown, faults>>

RuntimeShutdown ==
    /\ ~shutdown
    /\ main.outcome = "Running"
    /\ Fault
    /\ shutdown' = TRUE
    /\ UNCHANGED <<inputs, sleeping, previous, chainHead, advances, main, pipe, mutex,
                   heightQueries, checkpoints>>

(***************************************************************************)
(* tokio::spawn: the task starts at pc, or, on a runtime that was shut     *)
(* down, is cancelled at once.                                             *)
(***************************************************************************)
Spawned(task) ==
    IF shutdown THEN [task EXCEPT !.pc = "done", !.res = CancelledRes] ELSE task

(***************************************************************************)
(* UpperBound with the height read again for each exchange.                *)
(***************************************************************************)
UpperBoundRequeried == chainHead

(***************************************************************************)
(* The upper pagination bound handed to an exchange's crawl.               *)
(***************************************************************************)
UpperBound == main.current_block

(***************************************************************************)
(* let current_block = provider.get_block_number().await?                  *)
(***************************************************************************)
HeightQuery ==
    /\ main.pc = "height"
    /\ heightQueries' = heightQueries + 1
    /\ \/ /\ NoFault
          /\ main' = [main EXCEPT !.pc = "spawn", !.current_block = chainHead]
       \/ /\ Fault
          /\ main' = [main EXCEPT !.pc = "done", !.outcome = "Err",
                                  !.err = Error("ProviderError", Origin("height", 0, 0))]
    /\ UNCHANGED <<inputs, sleeping, previous, chainHead, advances, pipe, mutex,
                   checkpoints, shutdown>>

(***************************************************************************)
(* for dex in dexes { handles.push(tokio::spawn(..)) }: one iteration.     *)
(***************************************************************************)
SpawnExchange ==
    /\ main.pc = "spawn"
    /\ pipe' = [pipe EXCEPT ![main.j] =
                   Spawned([@ EXCEPT !.pc = "start", !.current_block = UpperBound])]
    /\ main' = IF main.j = Len(dexes) THEN [main EXCEPT !.pc = "join", !.j = 1]
               ELSE [main EXCEPT !.j = @ + 1]
    /\ UNCHANGED <<inputs, sleeping, previous, chainHead, advances, mutex, heightQueries,
                   checkpoints, shutdown, faults>>

(***************************************************************************)
(* What a pipeline does once its sync_pool loop is over.                   *)
(***************************************************************************)
AfterSyncPools(q, pools) == [q EXCEPT !.pc = "done", !.pools = pools, !.res = OkRes(pools)]

(***************************************************************************)
(* What a pipeline does once get_all_pool_data returned Ok(updated_pools). *)
(***************************************************************************)
AfterPoolData(q, updated_pools) ==
    IF entry = "get_all_pool_data" \/ updated_pools = <<>>
    THEN [q EXCEPT !.pc = "done", !.out = updated_pools, !.res = OkRes(updated_pools)]
    ELSE [q EXCEPT !.pc = "sp_lock", !.pools = updated_pools, !.out = updated_pools, !.p = 1]

(***************************************************************************)
(* What a pipeline does once get_all_pools_from_dex returned               *)
(* Ok(aggregated_pairs).                                                   *)
(***************************************************************************)
AfterCrawl(q, aggregated_pairs) ==
    IF entry \in {"get_all_pools", "get_all_pools_from_dex"}
    THEN [q EXCEPT !.pc = "done", !.pools = aggregated_pairs, !.res = OkRes(aggregated_pairs)]
    ELSE IF aggregated_pairs = <<>>
         THEN AfterPoolData([q EXCEPT !.pools = <<>>], <<>>)
         ELSE [q EXCEPT !.pc = "pd_lock", !.pools = aggregated_pairs, !.out = <<>>, !.p = 1]

(***************************************************************************)
(* get_all_pools_from_dex up to its spawn loop. current_block - from_block *)
(* is an unsigned subtraction: below zero it panics in a build with        *)
(* overflow checks and wraps in one without.                               *)
(***************************************************************************)
StartCrawl(e) ==
    /\ pipe[e].pc = "start"
    /\ LET q == pipe[e]
           c == dexes[e].creation_block
       IN \/ /\ q.current_block < c
             /\ pipe' = [pipe EXCEPT ![e] = [q EXCEPT !.pc = "done", !.res = PanicRes(PipeId(e))]]
          \/ /\ WindowStarts(c, q.current_block) = <<>>
             /\ pipe' = [pipe EXCEPT ![e] = AfterCrawl(q, <<>>)]
          \/ /\ WindowStarts(c, q.current_block) # <<>>
             /\ pipe' = [pipe EXCEPT ![e] = [q EXCEPT !.pc = "spawn"]]
    /\ UNCHANGED <<inputs, sleeping, previous, chainHead, advances, main, mutex,
                   heightQueries, checkpoints, shutdown, faults>>

(***************************************************************************)
(* for from_block in (from_block..=current_block).step_by(step)            *)
(*     { handles.push(tokio::spawn(..)) }: one iteration.                  *)
(***************************************************************************)
SpawnWindow(e) ==
    /\ pipe[e].pc = "spawn"
    /\ LET q == pipe[e]
           starts == WindowStarts(dexes[e].creation_block, q.current_block)
           k == Len(q.wins) + 1
       IN pipe' = [pipe EXCEPT ![e] =
                     [q EXCEPT !.wins = Append(@, Spawned(Window(starts[k]))),
                               !.pc = IF k = Len(starts) THEN "join" ELSE "spawn",
                               !.j = 1]]
    /\ UNCHANGED <<inputs, sleeping, previous, chainHead, advances, main, mutex,
                   heightQueries, checkpoints, shutdown, faults>>

SetWin(e, k, w) == [pipe EXCEPT ![e].wins[k] = w]

Wins(e) == DOMAIN pipe[e].wins

(***************************************************************************)
(* The guard kept after increment_or_sleep has returned.                   *)
(***************************************************************************)
KeepGuard(holder) == holder

(***************************************************************************)
(* The MutexGuard returned by lock() is a temporary of the statement       *)
(* request_throttle.lock().expect(..).increment_or_sleep(n); it is dropped *)
(* at the statement's end, when increment_or_sleep has returned.           *)
(***************************************************************************)
DropGuard(holder) == Free

(***************************************************************************)
(* increment_or_sleep finds the budget of the current rate window used up  *)
(* and waits for the next one: a thread-blocking delay, taken inside the   *)
(* call and so by the task that holds the guard.  With a limit of 0 the    *)
(* throttle is disabled and never waits.                                   *)
(***************************************************************************)
ThrottleSleep ==
    /\ requests_per_second_limit > 0
    /\ mutex # Free
    /\ ~sleeping
    /\ sleeping' = TRUE
    /\ UNCHANGED <<inputs, previous, chainHead, advances, main, pipe, mutex,
                   heightQueries, checkpoints, shutdown, faults>>

(***************************************************************************)
(* A window worker: request_throttle.lock() ... .increment_or_sleep(1).    *)
(* The guard is a temporary of the statement: the mutex is held until      *)
(* increment_or_sleep has returned.                                        *)
(***************************************************************************)
WinLock(e, k) ==
    /\ pipe[e].wins[k].pc = "lock"
    /\ mutex = Free
    /\ mutex' = WinId(e, k)
    /\ pipe' = SetWin(e, k, [pipe[e].wins[k] EXCEPT !.pc = "holding"])
    /\ UNCHANGED <<inputs, sleeping, previous, chainHead, advances, main, heightQueries,
                   checkpoints, shutdown, faults>>

WinReserve(e, k) ==
    /\ pipe[e].wins[k].pc = "holding"
    /\ mutex = WinId(e, k)
    /\ mutex' = DropGuard(mutex)
    /\ sleeping' = FALSE
    /\ LET w == pipe[e].wins[k]
       IN pipe' = SetWin(e, k, [w EXCEPT !.pc = "get_logs",
                                         !.units = @ + LogsWeight,
                                         !.after_return = (main.pc = "done"),
                                         !.query = <<w.from_block, ToBlock(w.from_block)>>])
    /\ UNCHANGED <<inputs, previous, chainHead, advances, main, heightQueries,
                   checkpoints, shutdown, faults>>

(***************************************************************************)
(* The rest of a window worker: get_logs returns, each log is decoded.     *)
(***************************************************************************)
WinGetLogs(e, k) ==
    /\ pipe[e].wins[k].pc = "get_logs"
    /\ LET w == pipe[e].wins[k]
           logs == GetLogs(dexes[e].id, w.query[1], w.query[2], chainHead)
       IN \/ /\ NoFault
             /\ pipe' = SetWin(e, k, [w EXCEPT !.pc = "done",
                                               !.res = OkRes(DecodeAll(dexes[e].id, logs))])
          \/ /\ Fault
             /\ pipe' = SetWin(e, k, [w EXCEPT !.pc = "done",
                                               !.res = ErrRes(Error("ProviderError", WinId(e, k)))])
          \/ /\ Fault
             /\ logs # <<>>
             /\ pipe' = SetWin(e, k, [w EXCEPT !.pc = "done",
                                               !.res = ErrRes(Error("ABICodecError", WinId(e, k)))])
          \/ /\ Fault
             /\ pipe' = SetWin(e, k, [w EXCEPT !.pc = "done", !.res = PanicRes(WinId(e, k))])
    /\ UNCHANGED <<inputs, sleeping, previous, chainHead, advances, main, mutex,
                   heightQueries, checkpoints, shutdown>>

WinCancel(e, k) ==
    /\ shutdown
    /\ pipe[e].wins[k].pc \in {"lock", "get_logs"}
    /\ pipe' = SetWin(e, k, [pipe[e].wins[k] EXCEPT !.pc = "done", !.res = CancelledRes])
    /\ UNCHANGED <<inputs, sleeping, previous, chainHead, advances, main, mutex,
                   heightQueries, checkpoints, shutdown, faults>>

(***************************************************************************)
(* get_all_pools_from_dex: one iteration of the join loop over the window  *)
(* handles, and after the last one the code that follows up to the next    *)
(* suspension.                                                             *)
(***************************************************************************)
(***************************************************************************)
(* The window tasks aborted when their handles are dropped.                *)
(***************************************************************************)
AbortedOnDrop(wins) ==
    [k \in DOMAIN wins |->
        IF wins[k].res.kind = "Pending" /\ wins[k].pc # "holding"
        THEN [wins[k] EXCEPT !.pc = "done", !.res = CancelledRes]
        ELSE wins[k]]

(***************************************************************************)
(* The return out of the join loop drops the handles not yet awaited; a    *)
(* dropped JoinHandle detaches its task, which keeps running.              *)
(***************************************************************************)
LeftRunning(wins) == wins

JoinWindow(e) ==
    /\ pipe[e].pc = "join"
    /\ LET q == pipe[e]
           w == q.wins[q.j]
           r == JoinStep(w.res, q.pools)
       IN /\ Finished(w.res)
          /\ pipe' = [pipe EXCEPT ![e] =
                CASE r.next = "return_err" ->
                        [q EXCEPT !.pc = "done", !.res = ErrRes(r.err),
                                  !.wins = LeftRunning(q.wins)]
                  [] r.next = "resume_unwind" ->
                        [q EXCEPT !.pc = "done", !.res = PanicRes(r.err.origin),
                                  !.wins = LeftRunning(q.wins)]
                  [] OTHER ->
                        IF q.j = Len(q.wins) THEN AfterCrawl(q, r.pools)
                        ELSE [q EXCEPT !.j = @ + 1, !.pools = r.pools]]
    /\ UNCHANGED <<inputs, sleeping, previous, chainHead, advances, main, mutex,
                   heightQueries, checkpoints, shutdown, faults>>

(***************************************************************************)
(* PoolDataMatch with every error returned, whatever its class.            *)
(***************************************************************************)
PoolDataMatchAbortsOnAnyErr(outcome, updated_pools, pool) ==
    CASE outcome = "Ok" ->
            [next |-> "continue", pools |-> Append(updated_pools, [pool EXCEPT !.stage = "data"])]
      [] OTHER -> [next |-> "return_err", pools |-> updated_pools]

(***************************************************************************)
(* get_all_pool_data: match pool.get_pool_data(..).await { Ok(_) =>        *)
(* updated_pools.push(pool), Err(e) => if let ProviderError = e            *)
(* { return Err(..) } }.                                                   *)
(***************************************************************************)
PoolDataMatch(outcome, updated_pools, pool) ==
    CASE outcome = "Ok" ->
            [next |-> "continue", pools |-> Append(updated_pools, [pool EXCEPT !.stage = "data"])]
      [] outcome = "ProviderError" -> [next |-> "return_err", pools |-> updated_pools]
      [] OTHER -> [next |-> "continue", pools |-> updated_pools]

(***************************************************************************)
(* sync_pairs_with_throttle: pool.sync_pool(..).await?                     *)
(***************************************************************************)
SyncPoolMatch(outcome) == IF outcome = "Ok" THEN "continue" ELSE "return_err"

CallOutcomes == {"Ok", "ProviderError", "ContractError", "Panic"}

PoolId(e, p) == Origin("pool", e, p)

(***************************************************************************)
(* get_all_pool_data, one pool: lock and increment_or_sleep(4), then       *)
(* get_pool_data.                                                          *)
(***************************************************************************)
PoolDataLock(e) ==
    /\ pipe[e].pc = "pd_lock"
    /\ mutex = Free
    /\ mutex' = PipeId(e)
    /\ pipe' = [pipe EXCEPT ![e].pc = "pd_hold"]
    /\ UNCHANGED <<inputs, sleeping, previous, chainHead, advances, main, heightQueries,
                   checkpoints, shutdown, faults>>

PoolDataReserve(e) ==
    /\ pipe[e].pc = "pd_hold"
    /\ mutex = PipeId(e)
    /\ mutex' = DropGuard(mutex)
    /\ sleeping' = FALSE
    /\ pipe' = [pipe EXCEPT ![e].pc = "pd_call", ![e].units = @ + PoolDataWeight,
                            ![e].calls = @ + 1]
    /\ UNCHANGED <<inputs, previous, chainHead, advances, main, heightQueries,
                   checkpoints, shutdown, faults>>

PoolDataReturn(e) ==
    /\ pipe[e].pc = "pd_call"
    /\ \E outcome \in CallOutcomes :
          LET q == [pipe[e] EXCEPT !.outcomes = Append(@, outcome)]
              r == PoolDataMatch(outcome, q.out, q.pools[q.p])
          IN /\ IF outcome = "Ok" THEN NoFault ELSE Fault
             /\ pipe' = [pipe EXCEPT ![e] =
                   CASE outcome = "Panic" ->
                           [q EXCEPT !.pc = "done", !.res = PanicRes(PoolId(e, q.p))]
                     [] outcome # "Panic" /\ r.next = "return_err" ->
                           [q EXCEPT !.pc = "done",
                                     !.res = ErrRes(Error(outcome, PoolId(e, q.p)))]
                     [] OTHER ->
                           IF q.p = Len(q.pools) THEN AfterPoolData(q, r.pools)
                           ELSE [q EXCEPT !.pc = "pd_lock", !.p = @ + 1, !.out = r.pools]]
    /\ UNCHANGED <<inputs, sleeping, previous, chainHead, advances, main, mutex,
                   heightQueries, checkpoints, shutdown>>

(***************************************************************************)
(* sync_pairs_with_throttle, one pool of the last loop: lock and           *)
(* increment_or_sleep(1), then sync_pool.                                  *)
(***************************************************************************)
SyncPoolLock(e) ==
    /\ pipe[e].pc = "sp_lock"
    /\ mutex = Free
    /\ mutex' = PipeId(e)
    /\ pipe' = [pipe EXCEPT ![e].pc = "sp_hold"]
    /\ UNCHANGED <<inputs, sleeping, previous, chainHead, advances, main, heightQueries,
                   checkpoints, shutdown, faults>>

SyncPoolReserve(e) ==
    /\ pipe[e].pc = "sp_hold"
    /\ mutex = PipeId(e)
    /\ mutex' = DropGuard(mutex)
    /\ sleeping' = FALSE
    /\ pipe' = [pipe EXCEPT ![e].pc = "sp_call", ![e].units = @ + SyncPoolWeight,
                            ![e].calls = @ + 1]
    /\ UNCHANGED <<inputs, previous, chainHead, advances, main, heightQueries,
                   checkpoints, shutdown, faults>>

SyncPoolReturn(e) ==
    /\ pipe[e].pc = "sp_call"
    /\ \E outcome \in CallOutcomes :
          LET q == pipe[e]
              synced == [q.pools EXCEPT ![q.p].stage = "synced"]
          IN /\ IF outcome = "Ok" THEN NoFault ELSE Fault
             /\ pipe' = [pipe EXCEPT ![e] =
                   CASE outcome = "Panic" ->
                           [q EXCEPT !.pc = "done", !.res = PanicRes(PoolId(e, q.p))]
                     [] outcome # "Panic" /\ SyncPoolMatch(outcome) = "return_err" ->
                           [q EXCEPT !.pc = "done",
                                     !.res = ErrRes(Error(outcome, PoolId(e, q.p)))]
                     [] OTHER ->
                           IF q.p = Len(q.pools) THEN AfterSyncPools(q, synced)
                           ELSE [q EXCEPT !.pc = "sp_lock", !.p = @ + 1, !.pools = synced]]
    /\ UNCHANGED <<inputs, sleeping, previous, chainHead, advances, main, mutex,
                   heightQueries, checkpoints, shutdown>>

(***************************************************************************)
(* A spawned exchange task is cancelled at a suspension point once the     *)
(* runtime is shut down.                                                   *)
(***************************************************************************)
PipeCancel(e) ==
    /\ shutdown
    /\ Composite
    /\ pipe[e].pc \in {"start", "join", "pd_call", "sp_call"}
    /\ pipe' = [pipe EXCEPT ![e].pc = "done", ![e].res = CancelledRes]
    /\ UNCHANGED <<inputs, sleeping, previous, chainHead, advances, main, mutex,
                   heightQueries, checkpoints, shutdown, faults>>

(***************************************************************************)
(* ConstructCheckpoint handed the height read at entry.                    *)
(***************************************************************************)
ConstructCheckpointStaleHeight(ds, pools, latest_block, name) ==
    [dexes |-> ds, pools |-> pools, height |-> main.current_block, name |-> name]

(***************************************************************************)
(* checkpoint::construct_checkpoint(dexes, &aggregated_pools,              *)
(* latest_block, "pool_sync_checkpoint.json"): the call as the sink sees   *)
(* it.                                                                     *)
(***************************************************************************)
ConstructCheckpoint(ds, pools, latest_block, name) ==
    [dexes |-> ds, pools |-> pools, height |-> latest_block, name |-> name]

(***************************************************************************)
(* The entry points' join loop over the exchange handles: one iteration,   *)
(* and after the last one the code up to the next suspension.              *)
(***************************************************************************)
JoinExchange ==
    /\ main.pc = "join"
    /\ LET q == pipe[main.j]
           r == JoinStep(q.res, main.aggregated)
       IN /\ Finished(q.res)
          /\ main' =
                CASE r.next = "return_err" ->
                        [main EXCEPT !.pc = "done", !.outcome = "Err", !.err = r.err]
                  [] r.next = "resume_unwind" ->
                        [main EXCEPT !.pc = "done", !.outcome = "Panic", !.err = r.err]
                  [] OTHER ->
                        IF main.j < Len(dexes)
                        THEN [main EXCEPT !.j = @ + 1, !.aggregated = r.pools]
                        ELSE IF entry = "sync_pairs_with_throttle" /\ save_checkpoint
                             THEN [main EXCEPT !.pc = "closing", !.aggregated = r.pools]
                             ELSE [main EXCEPT !.pc = "done", !.aggregated = r.pools,
                                               !.outcome = "Ok", !.pools = r.pools]
    /\ UNCHANGED <<inputs, sleeping, previous, chainHead, advances, pipe, mutex,
                   heightQueries, checkpoints, shutdown, faults>>

(***************************************************************************)
(* if save_checkpoint { let latest_block = get_block_number().await?;      *)
(* construct_checkpoint(..) }; Ok(aggregated_pools)                        *)
(***************************************************************************)
ClosingHeight ==
    /\ main.pc = "closing"
    /\ heightQueries' = heightQueries + 1
    /\ \/ /\ NoFault
          /\ checkpoints' = Append(checkpoints,
                ConstructCheckpoint(dexes, main.aggregated, chainHead, CheckpointName))
          /\ main' = [main EXCEPT !.pc = "done", !.outcome = "Ok", !.pools = main.aggregated,
                                  !.latest_block = chainHead]
       \/ /\ Fault
          /\ checkpoints' = checkpoints
          /\ main' = [main EXCEPT !.pc = "done", !.outcome = "Err",
                                  !.err = Error("ProviderError", Origin("height", 0, 1))]
    /\ UNCHANGED <<inputs, sleeping, previous, chainHead, advances, pipe, mutex, shutdown>>

(***************************************************************************)
(* get_all_pools_from_dex or get_all_pool_data called directly: the call   *)
(* runs in the caller's task and ends as the function ends.                *)
(***************************************************************************)
DirectReturn ==
    /\ main.pc = "inline"
    /\ Finished(pipe[1].res)
    /\ main' = [main EXCEPT !.pc = "done", !.outcome = pipe[1].res.kind,
                            !.pools = pipe[1].res.pools, !.err = pipe[1].res.err]
    /\ UNCHANGED <<inputs, sleeping, previous, chainHead, advances, pipe, mutex,
                   heightQueries, checkpoints, shutdown, faults>>

(***************************************************************************)
(* The caller of get_all_pools calls it again with the same exchanges      *)
(* after an Ok return, against a chain that has not moved: a new call,     *)
(* with a new throttle and new tasks.                                      *)
(***************************************************************************)
Rerun ==
    /\ entry = "get_all_pools"
    /\ main.pc = "done"
    /\ main.outcome = "Ok"
    /\ previous = <<>>
    /\ faults = 0
    /\ advances = 0
    /\ previous' = <<main.pools>>
    /\ main' = NewMain("height", 0)
    /\ pipe' = [e \in Pipes |-> NewPipe]
    /\ heightQueries' = 0
    /\ mutex' = Free
    /\ sleeping' = FALSE
    /\ UNCHANGED <<inputs, chainHead, advances, checkpoints, shutdown, faults>>

Next ==
    \/ AdvanceHead
    \/ ThrottleSleep
    \/ Rerun
    \/ RuntimeShutdown
    \/ HeightQuery
    \/ SpawnExchange
    \/ JoinExchange
    \/ ClosingHeight
    \/ DirectReturn
    \/ \E e \in Pipes : StartCrawl(e)
    \/ \E e \in Pipes : SpawnWindow(e)
    \/ \E e \in Pipes : JoinWindow(e)
    \/ \E e \in Pipes : PoolDataLock(e)
    \/ \E e \in Pipes : PoolDataReserve(e)
    \/ \E e \in Pipes : PoolDataReturn(e)
    \/ \E e \in Pipes : SyncPoolLock(e)
    \/ \E e \in Pipes : SyncPoolReserve(e)
    \/ \E e \in Pipes : SyncPoolReturn(e)
    \/ \E e \in Pipes : PipeCancel(e)
    \/ \E e \in Pipes : \E k \in Wins(e) : WinLock(e, k)
    \/ \E e \in Pipes : \E k \in Wins(e) : WinReserve(e, k)
    \/ \E e \in Pipes : \E k \in Wins(e) : WinGetLogs(e, k)
    \/ \E e \in Pipes : \E k \in Wins(e) : WinCancel(e, k)

Spec == Init /\ [][Next]_vars

(***************************************************************************)
(* The steps of the program and of the runtime that drives its tasks, as   *)
(* opposed to those of the chain, the caller and the clock: a network call *)
(* that is in flight returns, a throttle wait ends, a task that can run is *)
(* polled.                                                                 *)
(***************************************************************************)
ProgramNext ==
    \/ HeightQuery
    \/ SpawnExchange
    \/ JoinExchange
    \/ ClosingHeight
    \/ DirectReturn
    \/ \E e \in Pipes :
          \/ StartCrawl(e) \/ SpawnWindow(e) \/ JoinWindow(e)
          \/ PoolDataLock(e) \/ PoolDataReserve(e) \/ PoolDataReturn(e)
          \/ SyncPoolLock(e) \/ SyncPoolReserve(e) \/ SyncPoolReturn(e)
          \/ PipeCancel(e)
          \/ \E k \in Wins(e) :
                WinLock(e, k) \/ WinReserve(e, k) \/ WinGetLogs(e, k) \/ WinCancel(e, k)

LiveSpec == Spec /\ WF_vars(ProgramNext)

(***************************************************************************)
(* Vocabulary of the properties.                                           *)
(***************************************************************************)
AllWindows == UNION {{<<e, k>> : k \in Wins(e)} : e \in Pipes}

Win(x) == pipe[x[1]].wins[x[2]]

WindowsWith(kind) == {x \in AllWindows : Win(x).res.kind = kind}

Discovers == entry \in {"get_all_pools", "get_all_pools_from_dex"}

Returned == main.pc = "done"

Panicked ==
    \/ \E x \in AllWindows : Win(x).res.kind = "Panic"
    \/ \E e \in Pipes : pipe[e].res.kind = "Panic"

(***************************************************************************)
(* C1. When get_all_pools or get_all_pools_from_dex returns Ok, the        *)
(* returned collection is, as a set, the union of the decode results of    *)
(* every spawned window worker of every exchange, and no worker's result   *)
(* is missing: the pool of every creation log that lies in a spawned       *)
(* window's range, at or below the upper bound of the crawl (so on the     *)
(* chain whenever the window is queried), is in the returned collection.   *)
(***************************************************************************)
WindowLogs(x) ==
    LET w == Win(x)
    IN {b \in ChainLogs(dexes[x[1]].id) :
           /\ w.from_block <= b
           /\ b <= ToBlock(w.from_block)
           /\ b <= pipe[x[1]].current_block}

WindowPools(x) == {EmptyPool(dexes[x[1]].id, b) : b \in WindowLogs(x)}

C1_OkIsUnionOfAllWindows ==
    (Discovers /\ main.outcome = "Ok") =>
        /\ Range(main.pools) = UNION {Range(Win(x).res.pools) : x \in AllWindows}
        /\ \A x \in AllWindows : WindowPools(x) \subseteq Range(main.pools)

(***************************************************************************)
(* C2. Once a worker has panicked, the call does not return Ok and does    *)
(* not return an ordinary Err in place of the panic: a crawl one of whose  *)
(* window workers has panicked ends only by re-raising, and so does an     *)
(* entry point one of whose exchange workers has panicked. Stated for runs *)
(* in which the runtime is not shut down.                                  *)
(***************************************************************************)
WindowPanickedIn(e) == \E k \in Wins(e) : pipe[e].wins[k].res.kind = "Panic"

C2_PanicIsReraised ==
    [][/\ \A e \in Pipes :
            (WindowPanickedIn(e) /\ ~shutdown /\ pipe[e].res.kind = "Pending")
               => pipe'[e].res.kind \in {"Pending", "Panic"}
       /\ (Panicked /\ ~shutdown /\ Composite /\ main.outcome = "Running")
               => main'.outcome \in {"Running", "Panic"}]_vars

(***************************************************************************)
(* C3. Crawl fault isolation: when get_all_pools or get_all_pools_from_dex *)
(* has returned and exactly one window task reported an error while no     *)
(* task panicked or was cancelled, the call returned that error and no     *)
(* pool list.                                                              *)
(***************************************************************************)
OnlyReportedErrors ==
    /\ ~shutdown
    /\ ~Panicked
    /\ main.err.origin[1] # "height"

C3_OneErrFailsDiscover ==
    (Discovers /\ Returned /\ OnlyReportedErrors /\ Cardinality(WindowsWith("Err")) = 1) =>
        /\ main.outcome = "Err"
        /\ main.pools = <<>>
        /\ \E x \in WindowsWith("Err") : main.err = Win(x).res.err

C3_Witness ==
    /\ entry = "get_all_pools"
    /\ Returned
    /\ main.outcome = "Err"
    /\ OnlyReportedErrors
    /\ Cardinality(WindowsWith("Err")) = 1
    /\ Cardinality(WindowsWith("Ok")) = 2
    /\ Cardinality(AllWindows) = 3
    /\ \E x \in WindowsWith("Err") : Win(x).res.err.class = "ABICodecError"

(***************************************************************************)
(* C4. Refresh skip-on-error in get_all_pool_data. When no get_pool_data   *)
(* call fails with a ProviderError the call returns Ok with exactly the    *)
(* pools whose call succeeded, in input order (one item-class failure      *)
(* among M pools leaves the other M-1); when a call fails with a           *)
(* ProviderError the call returns that error and no list, and that call is *)
(* the last one: no throttle unit is reserved and no refresh is issued for *)
(* the pools after it.                                                     *)
(***************************************************************************)
CountOf(seq, v) == Cardinality({i \in DOMAIN seq : seq[i] = v})

RECURSIVE KeptPools(_, _)
KeptPools(pools, outcomes) ==
    IF pools = <<>> \/ outcomes = <<>> THEN <<>>
    ELSE (IF Head(outcomes) = "Ok" THEN <<[Head(pools) EXCEPT !.stage = "data"]>> ELSE <<>>)
            \o KeptPools(Tail(pools), Tail(outcomes))

C4_RefreshSkipOnError ==
    (entry = "get_all_pool_data" /\ Returned /\ main.outcome # "Panic") =>
        LET q == pipe[1]
            n == Len(q.outcomes)
        IN IF CountOf(q.outcomes, "ProviderError") > 0
           THEN /\ main.outcome = "Err"
                /\ main.err = Error("ProviderError", PoolId(1, n))
                /\ main.pools = <<>>
                /\ q.outcomes[n] = "ProviderError"
                /\ CountOf(q.outcomes, "ProviderError") = 1
                /\ q.calls = n
                /\ q.units = 4 * n
           ELSE /\ main.outcome = "Ok"
                /\ n = Len(q.pools)
                /\ q.calls = n
                /\ main.pools = KeptPools(q.pools, q.outcomes)
                /\ Len(main.pools) = Len(q.pools) - CountOf(q.outcomes, "ContractError")

C4_Witness ==
    /\ entry = "get_all_pool_data"
    /\ Returned
    /\ main.outcome = "Ok"
    /\ Len(pipe[1].pools) = 3
    /\ pipe[1].outcomes = <<"Ok", "ContractError", "Ok">>
    /\ Len(main.pools) = 2

(***************************************************************************)
(* C5. In sync_pairs_with_throttle, when the only failures of a run are    *)
(* item-class failures of per-pool refresh calls (get_pool_data or         *)
(* sync_pool), no exchange task fails and the call does not fail: each     *)
(* failure only drops its pool.                                            *)
(***************************************************************************)
ItemRefreshFailures(e) ==
    CountOf(pipe[e].outcomes, "ContractError")
       + (IF pipe[e].res.kind = "Err" /\ pipe[e].res.err.class = "ContractError" THEN 1 ELSE 0)

OnlyItemRefreshFailures == faults = Sum([e \in Pipes |-> ItemRefreshFailures(e)], Pipes)

C5_ItemFailureOnlyDropsPool ==
    (entry = "sync_pairs_with_throttle" /\ OnlyItemRefreshFailures) =>
        /\ \A e \in Pipes : pipe[e].res.kind \in {"Pending", "Ok"}
        /\ main.outcome \in {"Running", "Ok"}

(***************************************************************************)
(* C6. In get_all_pools and sync_pairs_with_throttle the chain height is   *)
(* queried exactly once before any worker is spawned (the only other query *)
(* is the closing one of a checkpointed run, after the joins), every       *)
(* exchange's crawl gets that one value as its upper bound however the     *)
(* head moves, and a failed height query ends the call with no worker      *)
(* spawned, no throttle unit reserved and no log query issued.             *)
(***************************************************************************)
C6_HeightQueriedOnceAndShared ==
    Composite =>
        /\ main.pc = "height" => (heightQueries = 0 /\ \A e \in Pipes : pipe[e] = NewPipe)
        /\ main.pc \in {"spawn", "join", "closing"} => heightQueries = 1
        /\ heightQueries <= (IF entry = "sync_pairs_with_throttle" /\ save_checkpoint /\ Returned
                             THEN 2 ELSE 1)
        /\ \A e \in Pipes :
              pipe[e].pc # "unspawned" =>
                 /\ pipe[e].current_block = main.current_block
                 /\ \A k \in Wins(e) : pipe[e].wins[k].from_block <= main.current_block
        /\ main.err = Error("ProviderError", Origin("height", 0, 0)) =>
              /\ main.outcome = "Err"
              /\ heightQueries = 1
              /\ mutex = Free
              /\ \A e \in Pipes : pipe[e] = NewPipe

C6_Witness ==
    /\ entry = "sync_pairs_with_throttle"
    /\ main.outcome = "Ok"
    /\ chainHead > main.current_block
    /\ \A e \in Pipes : pipe[e].res.kind = "Ok" /\ pipe[e].current_block = main.current_block
    /\ Cardinality(AllWindows) = 3
    /\ \A x \in AllWindows : Win(x).query # <<>>

(***************************************************************************)
(* C7. For an exchange with creation block c and upper bound h, c <= h, a  *)
(* crawl that has left its spawn loop has spawned exactly one worker for   *)
(* each window start c + k*100000 <= h, and a worker's query runs from its *)
(* start to start + 100000; c = h gives one window, c = 0 and h = 250000   *)
(* the windows [0,100000], [100000,200000], [200000,300000], and a run     *)
(* with no injected failure returns Ok although the last window ends       *)
(* above h.                                                                *)
(***************************************************************************)
ExpectedStarts(c, h) == {c + k * 100000 : k \in 0..((h - c) \div 100000)}

CrawlSpawned(e) ==
    /\ entry # "get_all_pool_data"
    /\ pipe[e].pc \notin {"unspawned", "start", "spawn"}
    /\ ~(pipe[e].res.kind = "Cancelled" /\ pipe[e].wins = <<>>)

WindowRanges(e) ==
    [k \in Wins(e) |-> <<pipe[e].wins[k].from_block, pipe[e].wins[k].from_block + 100000>>]

C7_OneWindowPerStart ==
    \A e \in Pipes :
       LET c == dexes[e].creation_block
           h == pipe[e].current_block
           q == pipe[e]
       IN (CrawlSpawned(e) /\ c <= h) =>
             /\ Len(q.wins) = Cardinality(ExpectedStarts(c, h))
             /\ {q.wins[k].from_block : k \in Wins(e)} = ExpectedStarts(c, h)
             /\ \A k \in Wins(e) : q.wins[k].query \in {<<>>, WindowRanges(e)[k]}
             /\ c = h => Len(q.wins) = 1
             /\ (c = 0 /\ h = 250000) =>
                   WindowRanges(e) = <<<<0, 100000>>, <<100000, 200000>>, <<200000, 300000>>>>
             /\ (faults = 0 /\ Finished(q.res)) =>
                   /\ q.res.kind = "Ok"
                   /\ \A k \in Wins(e) : q.wins[k].query = WindowRanges(e)[k]

C7_Witness ==
    /\ entry = "get_all_pools_from_dex"
    /\ dexes[1].creation_block = 0
    /\ pipe[1].current_block = 250000
    /\ main.outcome = "Ok"
    /\ faults = 0
    /\ [k \in Wins(1) |-> pipe[1].wins[k].query]
          = <<<<0, 100000>>, <<100000, 200000>>, <<200000, 300000>>>>

(***************************************************************************)
(* C8. Every creation log of an exchange is fetched by exactly one window  *)
(* of its crawl: no creation log lies in the block ranges queried by two   *)
(* different window workers of one crawl, and a returned pool list names   *)
(* no pool twice.                                                          *)
(***************************************************************************)
InQuery(b, w) == w.query # <<>> /\ w.query[1] <= b /\ b <= w.query[2]

NoDuplicates(seq) == \A i, j \in DOMAIN seq : seq[i] = seq[j] => i = j

C8_LogOwnedByOneWindow ==
    /\ \A e \in Pipes : \A b \in ChainLogs(dexes[e].id) :
          \A k1, k2 \in Wins(e) :
             (InQuery(b, pipe[e].wins[k1]) /\ InQuery(b, pipe[e].wins[k2])) => k1 = k2
    /\ (Discovers /\ main.outcome = "Ok") => NoDuplicates(main.pools)

(***************************************************************************)
(* C9. Partition equivalence: in a run with no failure, the set of pools   *)
(* get_all_pools_from_dex returns for creation block c and upper bound h   *)
(* is the set decoded from the logs of one query over [c, h] on the same   *)
(* chain, and no returned pool has its creation log outside [c, h].        *)
(***************************************************************************)
SingleQueryPools(e) ==
    Range(DecodeAll(dexes[e].id,
                    GetLogs(dexes[e].id, dexes[e].creation_block, pipe[e].current_block,
                            chainHead)))

C9_PartitionEquivalence ==
    (entry = "get_all_pools_from_dex" /\ main.outcome = "Ok" /\ faults = 0) =>
        /\ Range(main.pools) = SingleQueryPools(1)
        /\ \A pool \in Range(main.pools) :
              dexes[1].creation_block <= pool.block /\ pool.block <= pipe[1].current_block

(***************************************************************************)
(* C10. A run of sync_pairs_with_throttle with save_checkpoint set that    *)
(* returned Ok called the checkpoint sink once, with the input exchange    *)
(* list, the returned pool list, the height of the re-query made after     *)
(* every exchange task was joined (not below the height read at entry) and *)
(* the name "pool_sync_checkpoint.json".                                   *)
(***************************************************************************)
C10_CheckpointMatchesReturn ==
    (entry = "sync_pairs_with_throttle" /\ save_checkpoint /\ main.outcome = "Ok") =>
        /\ Len(checkpoints) = 1
        /\ checkpoints[1].dexes = dexes
        /\ checkpoints[1].pools = main.pools
        /\ checkpoints[1].name = "pool_sync_checkpoint.json"
        /\ checkpoints[1].height = main.latest_block
        /\ checkpoints[1].height >= main.current_block
        /\ checkpoints[1].height <= chainHead
        /\ heightQueries = 2
        /\ \A e \in Pipes : Finished(pipe[e].res)

C10_Witness ==
    /\ entry = "sync_pairs_with_throttle"
    /\ save_checkpoint
    /\ main.outcome = "Ok"
    /\ Len(checkpoints) = 1
    /\ Len(main.pools) = 3
    /\ \A i \in DOMAIN main.pools : main.pools[i].stage = "synced"
    /\ checkpoints[1].height > main.current_block

(***************************************************************************)
(* C11. A checkpoint is written at most once per call, and only by a       *)
(* sync_pairs_with_throttle call with save_checkpoint set that returns Ok  *)
(* and in which every exchange task and every window task ended Ok: none   *)
(* is written when save_checkpoint is false, when a task ended in a        *)
(* reported error, a panic or a join error, when the closing height query  *)
(* failed, or by get_all_pools.                                            *)
(***************************************************************************)
C11_CheckpointOnlyOnSuccess ==
    /\ Len(checkpoints) <= 1
    /\ main.err = Error("ProviderError", Origin("height", 0, 1)) => checkpoints = <<>>
    /\ checkpoints # <<>> =>
          /\ entry = "sync_pairs_with_throttle"
          /\ save_checkpoint
          /\ main.outcome = "Ok"
          /\ \A e \in Pipes : pipe[e].res.kind = "Ok"
          /\ \A x \in AllWindows : Win(x).res.kind = "Ok"


(***************************************************************************)
(* C12: get_all_pools is idempotent.  Two calls with the same exchanges    *)
(* against a chain that did not move, both without a fault, return the     *)
(* same set of pools.                                                      *)
(***************************************************************************)
SecondRunOk ==
    /\ entry = "get_all_pools"
    /\ previous # <<>>
    /\ main.outcome = "Ok"
    /\ faults = 0
    /\ advances = 0

C12_Idempotent == SecondRunOk => Range(main.pools) = Range(previous[1])

C12_Witness == SecondRunOk /\ Cardinality(Range(main.pools)) >= 2


(***************************************************************************)
(* C13: no worker holds the throttle mutex while one of its network calls  *)
(* is in flight.  The holder of the mutex is always a task inside its      *)
(* lock()..increment_or_sleep(n) statement; a task whose get_logs,         *)
(* get_pool_data or sync_pool call is in flight, and the entry point with  *)
(* its get_block_number calls, never is the holder.                        *)
(***************************************************************************)
InFlight(id) ==
    \/ \E e \in Pipes : id = PipeId(e) /\ pipe[e].pc \in {"pd_call", "sp_call", "join"}
    \/ \E x \in AllWindows : id = WinId(x[1], x[2]) /\ Win(x).pc = "get_logs"

InReservation(id) ==
    \/ \E e \in Pipes : id = PipeId(e) /\ pipe[e].pc \in {"pd_hold", "sp_hold"}
    \/ \E x \in AllWindows : id = WinId(x[1], x[2]) /\ Win(x).pc = "holding"

C13_LockNotHeldAcrossCall ==
    /\ mutex # Free => InReservation(mutex) /\ ~InFlight(mutex)
    /\ \A e \in Pipes : InReservation(PipeId(e)) => mutex = PipeId(e)
    /\ \A x \in AllWindows : InReservation(WinId(x[1], x[2])) => mutex = WinId(x[1], x[2])

C13_Witness ==
    /\ mutex # Free
    /\ \E x \in AllWindows : Win(x).pc = "get_logs"
    /\ \E e \in Pipes : pipe[e].pc \in {"pd_call", "sp_call"}


(***************************************************************************)
(* C14: the throttle mutex is released before the wait for budget.  While  *)
(* a worker waits inside its reservation the mutex is free, so that a      *)
(* worker about to reserve can acquire it.                                 *)
(***************************************************************************)
Waiting(id) == sleeping /\ InReservation(id)

C14_LockFreeDuringWait ==
    \A e \in Pipes : \A k \in Wins(e) :
        (\E id \in {WinId(e, j) : j \in Wins(e) \ {k}} \cup {PipeId(f) : f \in Pipes} :
             Waiting(id)) /\ pipe[e].wins[k].pc = "lock"
        => mutex = Free


(***************************************************************************)
(* C15: within one exchange of sync_pairs_with_throttle the refresh is     *)
(* sequential.  Every refresh call issued before the one in flight has     *)
(* returned, so at most one is in flight and pool i+1 is refreshed after   *)
(* pool i returned; the refresh stage runs only when every window of the   *)
(* exchange has been joined.  Pipelines of different exchanges overlap     *)
(* (the witness).                                                          *)
(***************************************************************************)
PoolDataPcs == {"pd_lock", "pd_hold", "pd_call"}

SyncPoolPcs == {"sp_lock", "sp_hold", "sp_call"}

CallInFlight(e) == IF pipe[e].pc \in {"pd_call", "sp_call"} THEN 1 ELSE 0

C15_SequentialRefresh ==
    entry = "sync_pairs_with_throttle" =>
        \A e \in Pipes :
            LET q == pipe[e]
            IN /\ q.pc \in PoolDataPcs =>
                     /\ q.p = Len(q.outcomes) + 1
                     /\ q.calls = Len(q.outcomes) + CallInFlight(e)
               /\ q.pc \in SyncPoolPcs =>
                     q.calls = Len(q.outcomes) + (q.p - 1) + CallInFlight(e)
               /\ q.pc \in PoolDataPcs \cup SyncPoolPcs =>
                     /\ q.p \in 1..Len(q.pools)
                     /\ q.j = Len(q.wins)
                     /\ \A k \in Wins(e) : q.wins[k].res.kind \in {"Ok", "Cancelled"}

C15_Witness ==
    /\ entry = "sync_pairs_with_throttle"
    /\ \E e \in Pipes : \E f \in Pipes \ {e} :
          /\ pipe[e].pc = "pd_call" /\ pipe[e].p = 2
          /\ pipe[f].pc \in {"pd_call", "sp_call"}


(***************************************************************************)
(* C16: a joiner that saw an error or a fault stops awaiting and does not  *)
(* cancel the siblings.  A task that has returned awaits no further handle *)
(* and keeps its outcome; unless the runtime is shut down no task is ever  *)
(* cancelled.  The witness is a window that reserved its unit and issued   *)
(* its query after the entry point had returned Err, and completed.        *)
(***************************************************************************)
C16_SiblingsNotCancelled ==
    [][previous' = previous =>
         /\ \A e \in Pipes :
               /\ pipe[e].pc = "done" =>
                     /\ pipe'[e].pc = "done"
                     /\ pipe'[e].j = pipe[e].j
                     /\ pipe'[e].res = pipe[e].res
               /\ ~shutdown' /\ pipe[e].res.kind = "Pending" =>
                     pipe'[e].res.kind # "Cancelled"
               /\ \A k \in Wins(e) :
                     ~shutdown' /\ pipe[e].wins[k].res.kind = "Pending" =>
                         pipe'[e].wins[k].res.kind # "Cancelled"
         /\ main.pc = "done" => main' = main]_vars

C16_Witness ==
    /\ main.pc = "done"
    /\ main.outcome = "Err"
    /\ ~shutdown
    /\ \E x \in AllWindows :
          /\ Win(x).after_return
          /\ Win(x).query # <<>>
          /\ Win(x).units = LogsWeight
          /\ Win(x).res.kind = "Ok"
          /\ Win(x).res.pools # <<>>


(***************************************************************************)
(* Throttle accounting of one step.  A request starts only out of the      *)
(* worker's own completed reservation, which adds the request's weight to  *)
(* the units the worker has reserved; no other step reserves anything.     *)
(* A window worker issues a single query.                                  *)
(***************************************************************************)
Starts(before, after, call) == after.pc = call /\ before.pc # call

WindowAccounting(e) ==
    \A k \in Wins(e) :
        LET w == pipe[e].wins[k]
            v == pipe'[e].wins[k]
        IN IF Starts(w, v, "get_logs")
           THEN w.pc = "holding" /\ w.units = 0 /\ v.units = 1 /\ w.query = <<>>
           ELSE v.units = w.units /\ v.query = w.query

RefreshAccounting(e, pool_data_units, sync_pool_units) ==
    LET q == pipe[e]
        r == pipe'[e]
    IN CASE Starts(q, r, "pd_call") ->
               q.pc = "pd_hold" /\ r.units = q.units + pool_data_units
         [] Starts(q, r, "sp_call") ->
               q.pc = "sp_hold" /\ r.units = q.units + sync_pool_units
         [] OTHER -> r.units = q.units

(***************************************************************************)
(* C17 as stated: each get_logs is preceded by the worker's reservation of *)
(* 1 unit, and each pool refresh call, get_pool_data and sync_pool alike,  *)
(* by a reservation of 4 units.                                            *)
(***************************************************************************)
C17_EveryRefreshCostsFour ==
    [][previous' = previous =>
          \A e \in Pipes : WindowAccounting(e) /\ RefreshAccounting(e, 4, 4)]_vars

(***************************************************************************)
(* C17 amended: each get_logs is preceded by the worker's reservation of 1 *)
(* unit, each get_pool_data by a reservation of 4 units and each sync_pool *)
(* of the composite path by a reservation of 1 unit.                       *)
(***************************************************************************)
C17_ReservationBeforeRequest ==
    [][previous' = previous =>
          \A e \in Pipes : WindowAccounting(e) /\ RefreshAccounting(e, 4, 1)]_vars

C17_Witness ==
    /\ entry = "sync_pairs_with_throttle"
    /\ \E e \in Pipes :
          /\ pipe[e].pc = "sp_call"
          /\ pipe[e].calls = 2
          /\ pipe[e].units = 5
          /\ \A k \in Wins(e) : pipe[e].wins[k].units = 1


(***************************************************************************)
(* C18: the order of a returned pool list is the spawn order, whatever the *)
(* order in which the workers complete.  An Ok result of a crawl lists the *)
(* pools window by window in ascending window start, each window's pools   *)
(* in log order; an Ok result of get_all_pools lists them exchange by      *)
(* exchange in input order; the result of get_all_pool_data, and with it   *)
(* that of sync_pairs_with_throttle, is an order-preserving subsequence    *)
(* with no pool added or duplicated.                                       *)
(***************************************************************************)
RECURSIVE Flatten(_)
Flatten(ss) == IF ss = <<>> THEN <<>> ELSE Head(ss) \o Flatten(Tail(ss))

RECURSIVE IsSubsequence(_, _)
IsSubsequence(s, t) ==
    IF s = <<>> THEN TRUE
    ELSE IF t = <<>> THEN FALSE
    ELSE IF Head(s) = Head(t) THEN IsSubsequence(Tail(s), Tail(t))
    ELSE IsSubsequence(s, Tail(t))

Keys(pools) == [i \in DOMAIN pools |-> <<pools[i].dex, pools[i].block>>]

WindowOrder(e) ==
    Flatten([k \in 1..Len(pipe[e].wins) |-> pipe[e].wins[k].res.pools])

ExchangeOrder ==
    Flatten([e \in 1..Len(dexes) |->
                IF pipe[e].res.kind = "Ok" THEN WindowOrder(e) ELSE <<>>])

C18_ResultInSpawnOrder ==
    /\ Discovers =>
          \A e \in Pipes : pipe[e].res.kind = "Ok" => pipe[e].res.pools = WindowOrder(e)
    /\ (entry = "get_all_pools" /\ main.outcome = "Ok") => main.pools = ExchangeOrder
    /\ (entry = "sync_pairs_with_throttle" /\ main.outcome = "Ok") =>
          /\ IsSubsequence(Keys(main.pools), Keys(ExchangeOrder))
          /\ faults = 0 => Keys(main.pools) = Keys(ExchangeOrder)
    /\ (entry = "get_all_pool_data" /\ pipe[1].res.kind = "Ok") =>
          /\ IsSubsequence(Keys(pipe[1].res.pools), Keys(pipe[1].pools))
          /\ faults = 0 => Keys(pipe[1].res.pools) = Keys(pipe[1].pools)

C18_Witness ==
    /\ entry = "get_all_pools"
    /\ main.outcome = "Ok"
    /\ Len(main.pools) >= 3
    /\ main.pools[1].dex = 1
    /\ main.pools[Len(main.pools)].dex = 2
    /\ \A x \in AllWindows : Win(x).res.kind = "Ok"


(***************************************************************************)
(* C19: of several failing workers of one fan-out the joiner surfaces the  *)
(* earliest spawned.  When a joiner has returned a worker's error or       *)
(* re-raised its panic, that worker is the one it was awaiting, every      *)
(* worker spawned before it has completed without failing, and so it is    *)
(* the first failing worker in spawn order, whenever the later ones fail.  *)
(***************************************************************************)
Failed(res) == res.kind \in {"Err", "Panic"}

Surfaced(res, from) == Failed(res) /\ res.err.origin[1] = from

C19_EarliestSpawnedFailureSurfaces ==
    /\ \A e \in Pipes :
          Surfaced(pipe[e].res, "window") =>
              LET q == pipe[e]
              IN /\ q.pc = "done"
                 /\ q.res.err.origin = WinId(e, q.j)
                 /\ q.res.kind = q.wins[q.j].res.kind
                 /\ q.res.err.class = q.wins[q.j].res.err.class
                 /\ \A k \in 1..(q.j - 1) : q.wins[k].res.kind \in {"Ok", "Cancelled"}
                 /\ q.j = Min({k \in Wins(e) : Failed(q.wins[k].res)})
    /\ (Composite /\ main.outcome \in {"Err", "Panic"} /\ main.err.origin[1] # "height") =>
          /\ Failed(pipe[main.j].res)
          /\ main.err = pipe[main.j].res.err
          /\ (main.outcome = "Panic") = (pipe[main.j].res.kind = "Panic")
          /\ \A e \in 1..(main.j - 1) : pipe[e].res.kind \in {"Ok", "Cancelled"}
          /\ main.j = Min({e \in Pipes : Failed(pipe[e].res)})

C19_Witness ==
    /\ Composite
    /\ main.outcome = "Err"
    /\ main.err = Error("ProviderError", WinId(1, 1))
    /\ pipe[1].wins[2].res.kind = "Panic"
    /\ pipe[1].j = 1
    /\ main.j = 1


(***************************************************************************)
(* C20: termination without deadlock.  When every network call returns,    *)
(* every throttle wait ends and the tasks are scheduled fairly, a call     *)
(* that has not returned eventually returns Ok, returns Err or re-raises a *)
(* panic; and the workers are never all blocked on the throttle mutex:     *)
(* whenever the mutex is taken its holder is a worker inside               *)
(* increment_or_sleep, which is about to release it.                       *)
(***************************************************************************)
C20_TerminatesWithoutDeadlock ==
    /\ (main.pc # "done") ~> (main.pc = "done" /\ main.outcome \in {"Ok", "Err", "Panic"})
    /\ [](mutex # Free => \E id \in {PipeId(e) : e \in Pipes}
                                     \cup {WinId(x[1], x[2]) : x \in AllWindows} :
                               mutex = id /\ InReservation(id))

C20_Witness ==
    /\ Composite
    /\ main.pc = "done"
    /\ main.outcome = "Ok"
    /\ requests_per_second_limit > 0
    /\ \A e \in Pipes : pipe[e].units > 0
    /\ Cardinality(AllWindows) >= 3

====
